---- MODULE Spec2Model ----
(***************************************************************************)
(* Model of the Zendesk webhook service: src/server.js (Express handler,   *)
(* redactPII, verifySecret, postReplyToZendesk) and gemini.js              *)
(* (src/unnamed/part_000: generateReply).                                  *)
(*                                                                         *)
(* Customer text is a sequence of one-character strings, so that the two   *)
(* regular expressions of redactPII, toLowerCase and includes are computed *)
(* character by character.  Texts produced by the program itself (fixed    *)
(* messages, the drafted reply) are TLA+ strings.                          *)
(***************************************************************************)
EXTENDS Integers, Sequences, FiniteSets, TLC

(***************************************************************************)
(* Characters and the character classes of the two regular expressions.   *)
(***************************************************************************)
LowerSeq == <<"a","b","c","d","e","f","g","h","i","j","k","l","m",
              "n","o","p","q","r","s","t","u","v","w","x","y","z">>
UpperSeq == <<"A","B","C","D","E","F","G","H","I","J","K","L","M",
              "N","O","P","Q","R","S","T","U","V","W","X","Y","Z">>
Lower == {LowerSeq[k] : k \in DOMAIN LowerSeq}
Upper == {UpperSeq[k] : k \in DOMAIN UpperSeq}
Letter == Lower \cup Upper
Digit == {"0","1","2","3","4","5","6","7","8","9"}
\* \w of a JavaScript regular expression (decides \b)
WordCh == Letter \cup Digit \cup {"_"}
\* \s, as far as the texts of the model use it
SpaceCh == {" ", "\n", "\t"}
\* [A-Z0-9._%+-] under the i flag
LocalCh == Letter \cup Digit \cup {".", "_", "%", "+", "-"}
\* [A-Z0-9.-] under the i flag
DomainCh == Letter \cup Digit \cup {".", "-"}
\* [-.\s]
SepCh == {"-", "."} \cup SpaceCh
\* [\d-.\s]
PhoneCh == Digit \cup SepCh

EmailMarker == <<"[","e","m","a","i","l","]">>
PhoneMarker == <<"[","p","h","o","n","e","]">>

PhoneMinRun == 5
PhoneMaxRun == 15

Min(a, b) == IF a <= b THEN a ELSE b

\* length of the longest run of characters of class C that starts at s[i]
RECURSIVE Run(_, _, _)
Run(s, i, C) ==
    IF i > Len(s) \/ s[i] \notin C THEN 0 ELSE 1 + Run(s, i + 1, C)

\* \b between s[p-1] and s[p]
WordBoundary(s, p) ==
    (p > 1 /\ p - 1 <= Len(s) /\ s[p - 1] \in WordCh)
        # (p <= Len(s) /\ s[p] \in WordCh)

(***************************************************************************)
(* /\b[A-Z0-9._%+-]+@[A-Z0-9.-]+\.[A-Z]{2,}\b/gi                           *)
(* EmailEnd(s, i): the index after the match that starts at s[i], 0 when   *)
(* there is none.  The local part is the whole run of local characters     *)
(* ("@" is not one of them); the domain is tried longest first; the TLD is *)
(* the whole run of letters, since \b fails between two letters.           *)
(***************************************************************************)
TldEnd(s, dot) ==
    LET t == Run(s, dot + 1, Letter)
        e == dot + 1 + t
    IN  IF dot <= Len(s) /\ s[dot] = "." /\ t >= 2 /\ WordBoundary(s, e)
        THEN e ELSE 0

EmailEnd(s, i) ==
    LET l  == Run(s, i, LocalCh)
        at == i + l
    IN  IF l = 0 \/ ~WordBoundary(s, i) \/ at > Len(s) THEN 0
        ELSE IF s[at] # "@" THEN 0
        ELSE LET d  == Run(s, at + 1, DomainCh)
                 ok == {n \in 1..(d - 1) : TldEnd(s, at + n + 1) > 0}
             IN  IF ok = {} THEN 0
                 ELSE TldEnd(s, at + (CHOOSE n \in ok : \A m \in ok : m <= n) + 1)

RECURSIVE ReplaceEmailFrom(_, _)
ReplaceEmailFrom(s, i) ==
    IF i > Len(s) THEN <<>>
    ELSE LET e == EmailEnd(s, i)
         IN  IF e > 0 THEN EmailMarker \o ReplaceEmailFrom(s, e)
             ELSE <<s[i]>> \o ReplaceEmailFrom(s, i + 1)

ReplaceEmail(s) == ReplaceEmailFrom(s, 1)

(***************************************************************************)
(* /(\+?\d{1,3}[-.\s]?)?(\(?\d{2,4}\)?[-.\s]?)?[\d-.\s]{5,15}/g            *)
(* Every quantifier is greedy, so the backtracking matcher tries the       *)
(* alternatives in the order the sequences below list them.                *)
(***************************************************************************)
\* x? for a one-character x of class C: take it, then leave it
OptCh(s, p, C) ==
    IF p <= Len(s) /\ s[p] \in C THEN <<p + 1, p>> ELSE <<p>>

\* \d{lo,hi}: the longest count first
DigitsEnds(s, p, lo, hi) ==
    LET m == Min(hi, Run(s, p, Digit))
    IN  IF m < lo THEN <<>> ELSE [k \in 1..(m - lo + 1) |-> p + m - k + 1]

RECURSIVE Flatten(_)
Flatten(ss) == IF ss = <<>> THEN <<>> ELSE Head(ss) \o Flatten(Tail(ss))

\* x? tried after each of the positions ps, in order
AfterOpt(ps, s, C) == Flatten([k \in DOMAIN ps |-> OptCh(s, ps[k], C)])

\* \d{lo,hi} tried after each of the positions ps, in order
AfterDigits(ps, s, lo, hi) ==
    Flatten([k \in DOMAIN ps |-> DigitsEnds(s, ps[k], lo, hi)])

\* (\+?\d{1,3}[-.\s]?)? : the positions after it, in the matcher's order
CountryEnds(s, i) ==
    AfterOpt(AfterDigits(OptCh(s, i, {"+"}), s, 1, 3), s, SepCh) \o <<i>>

\* (\(?\d{2,4}\)?[-.\s]?)?
AreaEnds(s, i) ==
    AfterOpt(AfterOpt(AfterDigits(OptCh(s, i, {"("}), s, 2, 4), s, {")"}), s, SepCh)
    \o <<i>>

\* [\d-.\s]{5,15}
TailEnd(s, p) ==
    LET r == Run(s, p, PhoneCh)
    IN  IF r >= PhoneMinRun THEN p + Min(r, PhoneMaxRun) ELSE 0

RECURSIVE FirstMatch(_, _)
FirstMatch(s, ps) ==
    IF ps = <<>> THEN 0
    ELSE IF TailEnd(s, Head(ps)) > 0 THEN TailEnd(s, Head(ps))
    ELSE FirstMatch(s, Tail(ps))

PhoneEnd(s, i) ==
    LET cs == CountryEnds(s, i)
    IN  FirstMatch(s, Flatten([k \in DOMAIN cs |-> AreaEnds(s, cs[k])]))

RECURSIVE ReplacePhoneFrom(_, _)
ReplacePhoneFrom(s, i) ==
    IF i > Len(s) THEN <<>>
    ELSE LET e == PhoneEnd(s, i)
         IN  IF e > 0 THEN PhoneMarker \o ReplacePhoneFrom(s, e)
             ELSE <<s[i]>> \o ReplacePhoneFrom(s, i + 1)

ReplacePhone(s) == ReplacePhoneFrom(s, 1)

\* redactPII: the email replacement, then the phone replacement
redactPII(text) ==
    IF text = <<>> THEN text ELSE ReplacePhone(ReplaceEmail(text))

(***************************************************************************)
(* String helpers of the handler: toLowerCase and includes on customer     *)
(* text, trim and slice on program strings.                                *)
(***************************************************************************)
LowerOf(c) ==
    IF c \in Upper THEN LowerSeq[CHOOSE k \in DOMAIN UpperSeq : UpperSeq[k] = c]
    ELSE c

toLowerCase(s) == [k \in 1..Len(s) |-> LowerOf(s[k])]

includes(s, k) ==
    \E i \in 1..(Len(s) - Len(k) + 1) : SubSeq(s, i, i + Len(k) - 1) = k

RECURSIVE TrimLeft(_)
TrimLeft(str) ==
    IF Len(str) > 0 /\ SubSeq(str, 1, 1) \in SpaceCh
    THEN TrimLeft(SubSeq(str, 2, Len(str))) ELSE str

RECURSIVE TrimRight(_)
TrimRight(str) ==
    IF Len(str) > 0 /\ SubSeq(str, Len(str), Len(str)) \in SpaceCh
    THEN TrimRight(SubSeq(str, 1, Len(str) - 1)) ELSE str

trim(str) == TrimRight(TrimLeft(str))

PreviewLen == 600
slice(str, n) == SubSeq(str, 1, Min(Len(str), n))

(***************************************************************************)
(* The sensitivity check of the handler.                                   *)
(***************************************************************************)
sensitiveKeywords ==
    << <<"r","e","f","u","n","d">>,
       <<"c","h","a","r","g","e">>,
       <<"b","i","l","l","i","n","g">>,
       <<"c","a","n","c","e","l"," ","s","u","b","s","c","r","i","p","t","i","o","n">>,
       <<"d","e","l","e","t","e"," ","a","c","c","o","u","n","t">>,
       <<"t","e","r","m","i","n","a","t","e">>,
       <<"l","e","g","a","l">> >>

isSensitiveCaseBound(redacted) ==
    \E k \in DOMAIN sensitiveKeywords : includes(redacted, sensitiveKeywords[k])

isSensitive(redacted) ==
    LET lc == toLowerCase(redacted)
    IN  \E k \in DOMAIN sensitiveKeywords : includes(lc, sensitiveKeywords[k])

(***************************************************************************)
(* Inputs: the process environment, the x-webhook-secret header and the    *)
(* JSON body of a request.  A missing field is "undefined" (identifiers)   *)
(* or the empty text (message fields); both are falsy, as null, 0 and ""   *)
(* are.                                                                    *)
(***************************************************************************)
\* "Refund a@b.co"
TxtRefund == <<"R","e","f","u","n","d"," ","a","@","b",".","c","o">>
\* "reset pw a@b.co"
TxtReset == <<"r","e","s","e","t"," ","p","w"," ","a","@","b",".","c","o">>
\* "call 555-1234"
TxtPhone == <<"c","a","l","l"," ","5","5","5","-","1","2","3","4">>
\* "hi"
TxtPlain == <<"h","i">>
\* "x@y.io12345"
TxtTrailing == <<"x","@","y",".","i","o","1","2","3","4","5">>
\* "LEGAL"
TxtLegal == <<"L","E","G","A","L">>
\* "cancel my subscription"
TxtCancel == <<"c","a","n","c","e","l"," ","m","y"," ","s","u","b","s","c","r","i","p","t","i","o","n">>
\* "billing?"
TxtLatest == <<"b","i","l","l","i","n","g","?">>
\* "ok 1"
TxtObjLatest == <<"o","k"," ","1">>
\* "desc"
TxtDesc == <<"d","e","s","c">>
\* "odesc"
TxtObjDesc == <<"o","d","e","s","c">>
\* "42"
TxtNumber == <<"4","2">>

CommentBodies ==
    {TxtRefund, TxtReset, TxtPhone, TxtPlain, TxtTrailing, TxtLegal, TxtCancel}

IdFalsy == {"undefined", "empty"}

Truthy(v) == v \notin IdFalsy

Envs ==
    [secret : {"", "s3cret"},
     autoPost : {"true", "false", "TRUE"},
     geminiKey : {"", "k3y"}]

Headers == {"absent", "s3cret", "wrong"}

\* the identifier under each of the four paths: none, any one, or all four
PayloadIds ==
    {i \in [tId : IdFalsy \cup {"42"}, ticket_id : {"undefined", "7"},
            id : {"undefined", "9"}, oId : {"undefined", "11"}] :
        Cardinality({f \in {"tId", "ticket_id", "id", "oId"} : Truthy(i[f])})
            \in {0, 1, 4}}

PayloadTexts ==
    [body : CommentBodies \cup {<<>>}, bodyType : {"string"},
     tLatest : {<<>>}, oLatest : {<<>>}, tDesc : {<<>>}, oDesc : {<<>>}]
    \cup
    [body : {TxtNumber}, bodyType : {"number"},
     tLatest : {<<>>}, oLatest : {<<>>}, tDesc : {<<>>}, oDesc : {<<>>}]
    \cup
    [body : {<<>>, TxtPlain}, bodyType : {"string"},
     tLatest : {<<>>, TxtLatest}, oLatest : {<<>>, TxtObjLatest},
     tDesc : {<<>>, TxtDesc}, oDesc : {<<>>, TxtObjDesc}]

\* what the generative service answers to the one axios.post of generateReply
GeminiAnswers ==
    [http : {"error"}, data : {"undefined"}, textType : {"undefined"}, text : {""}]
    \cup
    [http : {"ok"}, data : {"undefined"}, textType : {"undefined"}, text : {""}]
    \cup
    [http : {"ok"}, data : {"object"}, textType : {"undefined"}, text : {""}]
    \cup
    [http : {"ok"}, data : {"object"}, textType : {"string"},
     text : {"", "  ", " Thanks for reaching out.\n"}]
    \cup
    [http : {"ok"}, data : {"object"}, textType : {"number"}, text : {"42"}]

(***************************************************************************)
(* verifySecret                                                            *)
(***************************************************************************)
\* req.get("x-webhook-secret") || ""
Incoming(h) == IF h = "absent" THEN "" ELSE h

verifySecretLax(secret, h) ==
    IF secret = "" THEN TRUE ELSE Incoming(h) = "" \/ Incoming(h) = secret

verifySecret(secret, h) ==
    IF secret = "" THEN TRUE ELSE Incoming(h) # "" /\ Incoming(h) = secret

(***************************************************************************)
(* The normalisation at the head of the handler.                           *)
(***************************************************************************)
resolveTicketId(p) ==
    IF Truthy(p.tId) THEN p.tId
    ELSE IF Truthy(p.ticket_id) THEN p.ticket_id
    ELSE IF Truthy(p.id) THEN p.id
    ELSE p.oId

resolveRawComment(p) ==
    IF p.body # <<>> THEN [type |-> p.bodyType, chars |-> p.body]
    ELSE IF p.tLatest # <<>> THEN [type |-> "string", chars |-> p.tLatest]
    ELSE IF p.oLatest # <<>> THEN [type |-> "string", chars |-> p.oLatest]
    ELSE IF p.tDesc # <<>> THEN [type |-> "string", chars |-> p.tDesc]
    ELSE IF p.oDesc # <<>> THEN [type |-> "string", chars |-> p.oDesc]
    ELSE [type |-> "string", chars |-> <<>>]

\* if (!ticketId)
missingTicketIdNever(ticketId) == FALSE

missingTicketId(ticketId) == ~Truthy(ticketId)

\* process.env.AUTO_POST_HUMAN_FLAG === "true"
autoPostUnlessFalse(flag) == flag # "false"

autoPostEnabled(flag) == flag = "true"

(***************************************************************************)
(* What crosses the process boundary, in the order it happens: log lines,  *)
(* the call of generateReply with its prompt, the request to the           *)
(* generative service, the draft generateReply returns, the PUT to the     *)
(* ticketing system and the HTTP response.  `msg` is program text, `text`  *)
(* the customer text embedded in the value.                                *)
(***************************************************************************)
Ev0 ==
    [kind |-> "", level |-> "", msg |-> "", text |-> <<>>, ticketId |-> "",
     status |-> 0, ok |-> FALSE, note |-> "", preview |-> "", isPublic |-> FALSE]

LogEv(level, msg, text) ==
    [Ev0 EXCEPT !.kind = "log", !.level = level, !.msg = msg, !.text = text]

PromptEv(ticketId, text) ==
    [Ev0 EXCEPT !.kind = "prompt", !.ticketId = ticketId, !.text = text]

GeminiReqEv == [Ev0 EXCEPT !.kind = "gemini"]

DraftEv(draft) == [Ev0 EXCEPT !.kind = "draft", !.msg = draft]

PostEv(ticketId, body, isPublic) ==
    [Ev0 EXCEPT !.kind = "post", !.ticketId = ticketId, !.msg = body.str,
                !.text = body.text, !.isPublic = isPublic]

\* the ticketing system's answer to the PUT: axios resolves (ok) or rejects
PutResultEv(ok) == [Ev0 EXCEPT !.kind = "putResult", !.ok = ok]

RespEv(status, ok, error, note, ticketId, preview) ==
    [Ev0 EXCEPT !.kind = "response", !.status = status, !.ok = ok, !.msg = error,
                !.note = note, !.ticketId = ticketId, !.preview = preview]

Of(io, kind) == SelectSeq(io, LAMBDA e : e.kind = kind)

MsgNoTicket == "No ticket id found in payload:"
MsgHandlerErr == "Webhook handler error:"
MsgGenErr == "generateReply error:"
MsgShape == "Gemini returned unexpected shape:"

Resp401 == RespEv(401, FALSE, "Invalid shared secret", "", "", "")
Resp400 == RespEv(400, FALSE, "No ticket id in payload", "", "", "")
Resp500 == RespEv(500, FALSE, "Internal server error", "", "", "")
RespFlagged == RespEv(200, TRUE, "", "Flagged for human review", "", "")
\* a catch block that answers with the error's own message
Resp500Detail == RespEv(500, FALSE, "Request failed with status code 422", "", "", "")

(***************************************************************************)
(* postReplyToZendesk: one axios.put, awaited by the caller.               *)
(***************************************************************************)
postReplyTwice(io, ticketId, body, isPublic) ==
    io \o <<PostEv(ticketId, body, isPublic), PostEv(ticketId, body, isPublic)>>

postReplyToZendesk(io, ticketId, body, isPublic) ==
    Append(io, PostEv(ticketId, body, isPublic))

(***************************************************************************)
(* generateReply (gemini.js)                                               *)
(***************************************************************************)
FallbackError == "Error generating reply (AI service)."
\* the source's em dash is written "--" (the module is ASCII)
FallbackShape == "Sorry -- couldn't generate a reply at the moment."

NoAnswer ==
    [http |-> "none", data |-> "undefined", textType |-> "undefined", text |-> ""]
\* the throw of `GEMINI_API_KEY not set in environment`
NoKey == [NoAnswer EXCEPT !.http = "nokey"]

\* data?.candidates?.[0]?.content?.parts?.[0]?.text ?? null, then !reply
HasReply(a) ==
    /\ a.data = "object"
    /\ a.textType # "undefined"
    /\ (a.textType = "string" => a.text # "")

\* a failure that is not turned into a fallback string
generateReplyNoFallback(a) ==
    IF a.http \in {"nokey", "error"} \/ ~HasReply(a) \/ a.textType # "string"
    THEN [draft |-> "", logs |-> <<LogEv("error", MsgGenErr, <<>>)>>]
    ELSE [draft |-> trim(a.text), logs |-> <<>>]

\* the try/catch of generateReply, given the service's answer (or NoKey)
generateReplyResult(a) ==
    IF a.http \in {"nokey", "error"}
    THEN [draft |-> FallbackError, logs |-> <<LogEv("error", MsgGenErr, <<>>)>>]
    ELSE IF ~HasReply(a)
    THEN IF a.data = "undefined"
         \* JSON.stringify(undefined).slice throws inside the try
         THEN [draft |-> FallbackError, logs |-> <<LogEv("error", MsgGenErr, <<>>)>>]
         ELSE [draft |-> FallbackShape, logs |-> <<LogEv("error", MsgShape, <<>>)>>]
    ELSE IF a.textType # "string"
    \* reply.trim is not a function
    THEN [draft |-> FallbackError, logs |-> <<LogEv("error", MsgGenErr, <<>>)>>]
    ELSE [draft |-> trim(a.text), logs |-> <<>>]

(***************************************************************************)
(* The webhook handler, cut at its awaits.                                 *)
(***************************************************************************)
Loc0 ==
    [ticketId |-> "", rawType |-> "string", rawComment |-> <<>>, redacted |-> <<>>,
     classification |-> "none", answer |-> NoAnswer, draft |-> "", finalBody |-> ""]

NoteHead ==
    "[HUMAN REVIEW] This ticket contains sensitive keywords (refund, charge, billing, cancel subscription, delete account, terminate, legal). Please review and reply manually.\n\nCustomer message (redacted):\n"

humanNote(redacted) == [str |-> NoteHead, text |-> redacted]

\* the customer text interpolated into the prompt
ticketPromptRaw(rawComment, redacted) == rawComment

ticketPromptText(rawComment, redacted) == redacted

finalBodyOf(draft) == "Hi,\n\n" \o draft \o "\n\n--\nGuna, Napster Customer Support"

\* the catch block of the handler
catchResponse == Resp500

\* from the draft to the PUT of the reply
AfterDraft(loc, stages, io, a) ==
    LET res == generateReplyResult(a)
        fb  == finalBodyOf(res.draft)
    IN  [pc     |-> "awaitZendeskReply",
         loc    |-> [loc EXCEPT !.answer = a, !.draft = res.draft, !.finalBody = fb],
         stages |-> stages \cup {"post"},
         io     |-> postReplyToZendesk(io \o res.logs \o <<DraftEv(res.draft)>>,
                                       loc.ticketId, [str |-> fb, text |-> <<>>], FALSE)]

\* from the arrival of the request to the first await or the response
HandlerStart(e, h, p) ==
    IF ~verifySecret(e.secret, h)
    THEN [pc |-> "responded", loc |-> Loc0, stages |-> {}, io |-> <<Resp401>>]
    ELSE
    LET ticketId == resolveTicketId(p)
        raw      == resolveRawComment(p)
        loc1     == [Loc0 EXCEPT !.ticketId = ticketId, !.rawType = raw.type,
                                 !.rawComment = raw.chars]
    IN  IF missingTicketId(ticketId)
        THEN [pc |-> "responded", loc |-> loc1, stages |-> {"normalize"},
              io |-> <<LogEv("warn", MsgNoTicket, raw.chars), Resp400>>]
        ELSE IF raw.type # "string"
        \* text.replace is not a function
        THEN [pc |-> "responded", loc |-> loc1, stages |-> {"normalize", "redact"},
              io |-> <<LogEv("error", MsgHandlerErr, <<>>), catchResponse>>]
        ELSE
        LET redacted == redactPII(raw.chars)
            sens     == isSensitive(redacted)
            loc2     == [loc1 EXCEPT !.redacted = redacted,
                            !.classification = IF sens THEN "Sensitive" ELSE "Normal"]
            ran      == {"normalize", "redact", "classify"}
        IN  IF sens
            THEN IF autoPostEnabled(e.autoPost)
                 THEN [pc |-> "awaitZendeskNote", loc |-> loc2,
                       stages |-> ran \cup {"post"},
                       io |-> postReplyToZendesk(<<>>, ticketId,
                                                 humanNote(redacted), FALSE)]
                 ELSE [pc |-> "responded", loc |-> loc2, stages |-> ran,
                       io |-> <<RespFlagged>>]
            ELSE
            LET io1 == <<PromptEv(ticketId, ticketPromptText(raw.chars, redacted))>>
            IN  IF e.geminiKey = ""
                THEN AfterDraft(loc2, ran \cup {"draft"}, io1, NoKey)
                ELSE [pc |-> "awaitGemini", loc |-> loc2,
                      stages |-> ran \cup {"draft"},
                      io |-> Append(io1, GeminiReqEv)]

\* after the PUT: the success response, or the catch block
AfterPost(pcNow, loc, io, ok) ==
    IF ~ok
    THEN io \o <<PutResultEv(ok), LogEv("error", MsgHandlerErr, <<>>), catchResponse>>
    ELSE IF pcNow = "awaitZendeskNote"
    THEN io \o <<PutResultEv(ok), RespFlagged>>
    ELSE io \o <<PutResultEv(ok),
                 RespEv(200, TRUE, "", "", loc.ticketId,
                        slice(loc.finalBody, PreviewLen))>>

(***************************************************************************)
(* State.                                                                  *)
(***************************************************************************)
VARIABLES
    env,      \* process.env, read only
    served,   \* requests answered so far
    pc,       \* where the handler of the request in flight stands
    req,      \* the request in flight: its header and the payload's identifiers
    loc,      \* the handler's locals
    stages,   \* the pipeline stages that ran for the request
    io,       \* what crossed the process boundary for the request, in order
    inText,   \* RedactSpec: the text under test
    once,     \* RedactSpec: redactPII(inText)
    twice,    \* RedactSpec: redactPII(once)
    pstep     \* RedactSpec: how far the text went

vars == <<env, served, pc, req, loc, stages, io, inText, once, twice, pstep>>
hvars == <<env, served, pc, req, loc, stages, io>>
pvars == <<inText, once, twice, pstep>>

MaxRequests == 2

Req0 == [hdr |-> "absent", tId |-> "undefined", ticket_id |-> "undefined",
         id |-> "undefined", oId |-> "undefined"]

Init ==
    /\ env \in Envs
    /\ served = 0
    /\ pc = "idle"
    /\ req = Req0
    /\ loc = Loc0
    /\ stages = {}
    /\ io = <<>>
    /\ inText = <<>> /\ once = <<>> /\ twice = <<>> /\ pstep = "off"

\* app.post("/webhook/zendesk", ...) up to its first await
Webhook ==
    /\ pc = "idle"
    /\ served < MaxRequests
    /\ \E h \in Headers, ids \in PayloadIds, t \in PayloadTexts :
          LET p == [tId |-> ids.tId, ticket_id |-> ids.ticket_id, id |-> ids.id,
                    oId |-> ids.oId, body |-> t.body, bodyType |-> t.bodyType,
                    tLatest |-> t.tLatest, oLatest |-> t.oLatest,
                    tDesc |-> t.tDesc, oDesc |-> t.oDesc]
              r == HandlerStart(env, h, p)
          IN  /\ req' = [hdr |-> h, tId |-> ids.tId, ticket_id |-> ids.ticket_id,
                         id |-> ids.id, oId |-> ids.oId]
              /\ pc' = r.pc
              /\ loc' = r.loc
              /\ stages' = r.stages
              /\ io' = r.io
    /\ UNCHANGED <<env, served, pvars>>

\* the generative service answers: generateReply resumes and returns, the
\* handler builds finalBody and issues the PUT
GeminiResponds ==
    /\ pc = "awaitGemini"
    /\ \E a \in GeminiAnswers :
          LET r == AfterDraft(loc, stages, io, a)
          IN  /\ pc' = r.pc
              /\ loc' = r.loc
              /\ stages' = r.stages
              /\ io' = r.io
    /\ UNCHANGED <<env, served, req, pvars>>

\* the ticketing system answers the PUT, or the PUT fails
ZendeskResponds ==
    /\ pc \in {"awaitZendeskNote", "awaitZendeskReply"}
    /\ \E ok \in BOOLEAN : io' = AfterPost(pc, loc, io, ok)
    /\ pc' = "responded"
    /\ UNCHANGED <<env, served, req, loc, stages, pvars>>

\* the handler has returned: its locals are gone, the next request may come
RequestEnd ==
    /\ pc = "responded"
    /\ pc' = "idle"
    /\ served' = served + 1
    /\ req' = Req0
    /\ loc' = Loc0
    /\ stages' = {}
    /\ io' = <<>>
    /\ UNCHANGED <<env, pvars>>

Next == Webhook \/ GeminiResponds \/ ZendeskResponds \/ RequestEnd

Spec == Init /\ [][Next]_vars

\* the HTTP collaborators answer or fail: every await of the handler ends
LiveSpec == Spec /\ WF_vars(GeminiResponds) /\ WF_vars(ZendeskResponds)

(***************************************************************************)
(* RedactSpec: redactPII as a pure function, applied once and twice to     *)
(* every text made of at most MaxPieces pieces.                            *)
(***************************************************************************)
MaxPieces == 3

Pieces ==
    { <<"a","@","b",".","c","o">>, <<"1","2","3","4","5">>,
      <<"1">>, <<"x">>, <<"_">>, <<" ">>, <<"-">>, <<"@">>, <<".">> }

RECURSIVE TextsOf(_)
TextsOf(n) ==
    IF n = 0 THEN {<<>>}
    ELSE TextsOf(n - 1) \cup {t \o q : t \in TextsOf(n - 1), q \in Pieces}

InputTexts == TextsOf(MaxPieces)

RedactInit ==
    /\ inText \in InputTexts
    /\ once = <<>> /\ twice = <<>> /\ pstep = "input"
    /\ env = [secret |-> "", autoPost |-> "false", geminiKey |-> ""]
    /\ served = 0 /\ pc = "off" /\ req = Req0 /\ loc = Loc0
    /\ stages = {} /\ io = <<>>

RedactOnce ==
    /\ pstep = "input"
    /\ once' = redactPII(inText)
    /\ pstep' = "once"
    /\ UNCHANGED <<inText, twice, hvars>>

RedactTwice ==
    /\ pstep = "once"
    /\ twice' = redactPII(once)
    /\ pstep' = "twice"
    /\ UNCHANGED <<inText, once, hvars>>

RedactNext == RedactOnce \/ RedactTwice

RedactSpec == RedactInit /\ [][RedactNext]_vars

(***************************************************************************)
(* The claims.                                                             *)
(***************************************************************************)
Logs == Of(io, "log")
Prompts == Of(io, "prompt")
GeminiReqs == Of(io, "gemini")
Drafts == Of(io, "draft")
Posts == Of(io, "post")
PutResults == Of(io, "putResult")
Responses == Of(io, "response")

\* an output boundary: the log sink, generateReply, the ticketing system
Outbound(e) == e.kind \in {"log", "prompt", "post"}

\* the raw comment holds something redactPII removes
RawHasPII == loc.rawType = "string" /\ redactPII(loc.rawComment) # loc.rawComment

CarriesRaw(e) == RawHasPII /\ includes(e.text, loc.rawComment)

\* C1 as stated: on every path, the missing-ticket-id rejection and the
\* exception path included, nothing written to the log, passed to
\* generateReply or posted to the ticketing system carries the raw comment.
C1_RawNeverCrosses ==
    \A k \in DOMAIN io : Outbound(io[k]) => ~CarriesRaw(io[k])

\* C1 amended: the one value that carries the raw comment across a boundary
\* is the payload the missing-ticket-id rejection writes to the warning log;
\* once a ticket id is resolved, the log, generateReply and the ticketing
\* system see the customer text only as redactPII returned it.
C1_RawCrossesOnlyInMissingIdWarning ==
    \A k \in DOMAIN io :
        Outbound(io[k]) =>
            \/ ~CarriesRaw(io[k])
            \/ /\ io[k].kind = "log" /\ io[k].msg = MsgNoTicket
               /\ ~(\E v \in {req.tId, req.ticket_id, req.id, req.oId} : Truthy(v))

C1_Witness ==
    /\ pc = "responded" /\ RawHasPII
    /\ Len(Prompts) = 1 /\ Prompts[1].text = loc.redacted
    /\ Len(Posts) = 1 /\ Len(Logs) >= 1

\* none of ticket.id, ticket_id, id, object.id is present and non-empty
NoTicketId == \A v \in {req.tId, req.ticket_id, req.id, req.oId} : v \in IdFalsy

\* the request passes the shared-secret check
Admitted == env.secret = "" \/ req.hdr = env.secret

\* C2 as stated: every event without a ticket id ends with the 400 response
\* "No ticket id in payload", and neither generateReply nor
\* postReplyToZendesk is invoked.
C2_NoIdEnds400 ==
    (pc \notin {"idle", "off"} /\ NoTicketId) =>
        /\ Responses = <<Resp400>>
        /\ Prompts = <<>> /\ Posts = <<>>

\* C2 amended: an event without a ticket id never reaches generateReply or
\* postReplyToZendesk, and it ends with the 400 response when the request
\* passed the shared-secret check (a request that fails it gets 401 first).
C2_NoIdEnds400WhenAdmitted ==
    (pc \notin {"idle", "off"} /\ NoTicketId) =>
        /\ Prompts = <<>> /\ Posts = <<>> /\ GeminiReqs = <<>>
        /\ pc = "responded"
        /\ Admitted => Responses = <<Resp400>>

C2_Witness ==
    /\ pc = "responded" /\ NoTicketId /\ env.secret # "" /\ Admitted
    /\ req.tId = "empty"
    /\ Responses = <<Resp400>> /\ loc.rawComment # <<>>

\* the keywords of the claim, matched against the lower-cased text
ClaimKeywords ==
    { <<"r","e","f","u","n","d">>, <<"c","h","a","r","g","e">>,
      <<"b","i","l","l","i","n","g">>,
      <<"c","a","n","c","e","l"," ","s","u","b","s","c","r","i","p","t","i","o","n">>,
      <<"d","e","l","e","t","e"," ","a","c","c","o","u","n","t">>,
      <<"t","e","r","m","i","n","a","t","e">>, <<"l","e","g","a","l">> }

MentionsKeyword(t) ==
    \E kw \in ClaimKeywords : \E i \in 1..(Len(t) - Len(kw) + 1) :
        \A j \in 1..Len(kw) : LowerOf(t[i + j - 1]) = kw[j]

\* C3: a request that reaches classification is Sensitive exactly when its
\* redacted text mentions a keyword in any letter case, and a Sensitive
\* request never invokes generateReply, whatever AUTO_POST_HUMAN_FLAG is.
C3_KeywordMeansSensitive ==
    loc.classification # "none" =>
        /\ MentionsKeyword(loc.redacted) =>
              /\ loc.classification = "Sensitive"
              /\ Prompts = <<>> /\ GeminiReqs = <<>> /\ Drafts = <<>>
        /\ ~MentionsKeyword(loc.redacted) => loc.classification = "Normal"

C3_Witness ==
    /\ pc = "responded" /\ loc.classification = "Sensitive"
    /\ loc.redacted = TxtLegal /\ env.autoPost = "true" /\ Len(Posts) = 1
    /\ Prompts = <<>>

\* C4: with a secret configured, a request whose x-webhook-secret header is
\* absent or different gets the 401 response and no pipeline stage runs;
\* with no secret configured every request is admitted.
C4_BadSecretRejected ==
    pc \notin {"idle", "off"} =>
        /\ (env.secret # "" /\ req.hdr # env.secret) =>
              /\ io = <<Resp401>> /\ stages = {} /\ pc = "responded"
              /\ loc = Loc0
        /\ env.secret = "" =>
              /\ "normalize" \in stages
              /\ \A k \in DOMAIN io : io[k].status # 401

C4_Witness ==
    /\ env.secret # "" /\ req.hdr = "absent" /\ req.tId = "42"
    /\ pc = "responded" /\ io = <<Resp401>>

\* the generative-text collaborator failed: no API key, an HTTP error, or
\* a response without candidates[0].content.parts[0].text
DraftFailed(a) ==
    \/ a.http \in {"nokey", "error"}
    \/ a.http = "ok" /\ (a.data = "undefined" \/ a.textType = "undefined")

\* C5: when the collaborator fails, generateReply returns one of its two
\* fallback strings, the handler goes on to post, and the posted body is
\* never empty.
C5_DraftFailureStillPosts ==
    /\ \A k \in DOMAIN io :
          io[k].kind = "post" => Len(io[k].msg) + Len(io[k].text) > 0
    /\ (loc.answer.http # "none" /\ DraftFailed(loc.answer)) =>
          /\ loc.draft \in {FallbackError, FallbackShape}
          /\ Drafts = <<DraftEv(loc.draft)>>
          /\ Len(Posts) = 1
          /\ Posts[1].msg = "Hi,\n\n" \o loc.draft
                              \o "\n\n--\nGuna, Napster Customer Support"
          /\ Posts[1].ticketId = loc.ticketId /\ ~Posts[1].isPublic

C5_Witness ==
    /\ pc = "responded" /\ loc.answer.http = "ok" /\ loc.answer.data = "undefined"
    /\ loc.draft = FallbackError /\ Len(Posts) = 1
    /\ Len(Responses) = 1 /\ Responses[1].status = 200
    /\ Responses[1].preview = Posts[1].msg

\* C8: for a Sensitive request the human-review note is posted only when
\* AUTO_POST_HUMAN_FLAG is exactly "true"; otherwise nothing is sent to the
\* ticketing system and the request ends with {ok:true, note:"Flagged for
\* human review"}.
C8_NotePostedOnlyWhenEnabled ==
    loc.classification = "Sensitive" =>
        /\ Posts # <<>> =>
              /\ env.autoPost = "true"
              /\ Posts = <<PostEv(loc.ticketId, humanNote(loc.redacted), FALSE)>>
        /\ env.autoPost # "true" =>
              /\ pc = "responded" /\ io = <<RespFlagged>>

C8_Witness ==
    /\ loc.classification = "Sensitive" /\ env.autoPost = "TRUE"
    /\ pc = "responded" /\ io = <<RespFlagged>> /\ loc.redacted # loc.rawComment

\* C9: within one request generateReply is invoked at most once and
\* postReplyToZendesk at most once, on the Normal path the PUT follows the
\* return of generateReply and carries its text, and nothing is issued
\* again after a failure.
C9_CallsSequentialOnce ==
    /\ Len(Prompts) <= 1 /\ Len(GeminiReqs) <= 1 /\ Len(Posts) <= 1
    /\ \A k \in DOMAIN io :
          (io[k].kind = "post" /\ loc.classification = "Normal") =>
              \E j \in 1..(k - 1) :
                  /\ io[j].kind = "draft"
                  /\ io[k].msg = finalBodyOf(io[j].msg)
                  /\ \A i \in DOMAIN io : io[i].kind \in {"prompt", "gemini"} => i < j
    /\ \A k \in DOMAIN io :
          (io[k].kind = "putResult" /\ ~io[k].ok) =>
              \A i \in DOMAIN io : i > k => io[i].kind \in {"log", "response"}

C9_Witness ==
    /\ pc = "responded" /\ loc.classification = "Normal"
    /\ loc.answer.http = "error"
    /\ Len(Prompts) = 1 /\ Len(GeminiReqs) = 1 /\ Len(Posts) = 1
    /\ PutResults = <<PutResultEv(FALSE)>>

\* what C10 says of every state: one response at most and only at the end,
\* an exception gives the generic 500 response, a failed PUT is not
\* repeated, and replyPreview is sent only after a PUT that succeeded
C10_Safety ==
    /\ Len(Responses) = (IF pc = "responded" THEN 1 ELSE 0)
    /\ pc = "responded" => io[Len(io)].kind = "response"
    /\ \A k \in DOMAIN io :
          (io[k].kind = "log" /\ io[k].msg = MsgHandlerErr) =>
              /\ k + 1 = Len(io) /\ io[k + 1] = Resp500
    /\ \A k \in DOMAIN io :
          (io[k].kind = "putResult" /\ ~io[k].ok) =>
              /\ Len(Posts) = 1
              /\ k + 2 = Len(io) /\ io[k + 2] = Resp500
    /\ \A k \in DOMAIN io :
          (io[k].kind = "response" /\ io[k].status = 500) =>
              /\ io[k].msg = "Internal server error"
              /\ io[k].preview = "" /\ io[k].note = "" /\ io[k].ticketId = ""
    /\ \A k \in DOMAIN io :
          (io[k].kind = "response" /\ io[k].preview # "") =>
              /\ k > 1 /\ io[k - 1] = PutResultEv(TRUE)
              /\ io[k].status = 200

IsAddress(a) ==
    \E k \in 2..Len(a) : \E d \in (k + 2)..(Len(a) - 2) :
        /\ a[k] = "@" /\ a[d] = "."
        /\ \A i \in 1..(k - 1) : a[i] \in LocalCh
        /\ \A i \in (k + 1)..(d - 1) : a[i] \in DomainCh
        /\ \A i \in (d + 1)..Len(a) : a[i] \in Letter

AddressesIn(t) ==
    {a \in {SubSeq(t, i, j) : i \in 1..Len(t), j \in 1..Len(t)} : IsAddress(a)}

\* C6: redactPII(redactPII(t)) = redactPII(t) for every text t.
C6_RedactIdempotent == pstep = "twice" => twice = once

\* C7: every well-formed address in a text, whatever surrounds it, is
\* replaced by [email], and the result holds no occurrence of it.
C7_EveryAddressRedacted ==
    pstep \in {"once", "twice"} =>
        \A a \in AddressesIn(inText) :
            includes(once, EmailMarker) /\ ~includes(once, a)
====
